---- MODULE Spec2Model ----
(***************************************************************************)
(* Model of the alias-ptr crate: AliasPtr<T> (src/lib.rs), an untracked    *)
(* shared pointer freed by an explicit delete(), and AliasBox<T>           *)
(* (src/box.rs), a unique owner that frees its target on drop but can be   *)
(* aliased by AliasPtr.                                                    *)
(*                                                                         *)
(* The heap is a map from addresses to allocations; address 0 is null.     *)
(* Every allocation holds a Cell<i32>-like value and counts the runs of    *)
(* T's destructor.  A handle is the wrapped NonNull<T> together with its   *)
(* static type parameter T and the thread that owns it.                    *)
(***************************************************************************)
EXTENDS Integers, Sequences, FiniteSets, Bags, TLC

\* ---------------------------------------------------------------- bounds
\* MaxHandles: handles held at once.  MaxReleases: release calls (delete, or
\* the drop of an AliasBox) aimed at one allocation.
MaxHandles == 3
MaxReleases == 2

\* Two heap addresses; address 0 is null.
Addrs == {1, 2}
Main == "main"
Threads == {Main, "worker"}
InitialValue == 1
Values == {InitialValue, 42}
Null == 0

\* T as the trait system sees it: T: Send, T: Sync, T: Sized.
Types == [send : BOOLEAN, sync : BOOLEAN, sized : BOOLEAN]

NoOp == [op |-> "init", k |-> "none", p |-> 0, v |-> 0]

VARIABLES
    T,         \* the type the handles are instantiated at
    heap,      \* address -> allocation made by Box::new
    handles,   \* the bag of AliasPtr / AliasBox values the program holds
    proc,      \* "running" | "aborted"
    lastOp     \* the call that produced this state: its name, the
               \* kind of handle and the address it was applied to, and the
               \* value passed or returned

vars == <<T, heap, handles, proc, lastOp>>

\* ------------------------------------------------------- the allocator
Unallocated == [state |-> "Unallocated", val |-> 1, drops |-> 0, releases |-> 0,
                owner |-> "none"]

FreshAddrs == {a \in Addrs : heap[a].state = "Unallocated"}

\* Box::new(x): the address of a fresh allocation.
BoxNewAddr == CHOOSE a \in FreshAddrs : \A b \in FreshAddrs : a <= b

\* Box::new(x): the heap with x placed in the fresh allocation.
BoxNew(x, owner) ==
    [heap EXCEPT ![BoxNewAddr] = [state |-> "Live", val |-> x, drops |-> 0,
                                  releases |-> 0, owner |-> owner]]

\* Box::into_raw(item): the address, ownership given up, nothing freed.
BoxIntoRaw(item) == item

\* Faulty variant: the Box is forgotten, nothing is dropped or freed.
BoxFromRawDropLeak(p) ==
    {[heap |-> IF p = Null THEN heap ELSE [heap EXCEPT ![p].releases = @ + 1],
      abort |-> FALSE]}

\* Dropping Box::from_raw(p): T's destructor runs and the storage is freed.
\* On a null or already released address this is undefined behaviour: the
\* destructor runs again on the stale storage, or the process dies.
BoxFromRawDrop(p) ==
    IF p = Null
    THEN {[heap |-> heap, abort |-> FALSE], [heap |-> heap, abort |-> TRUE]}
    ELSE IF heap[p].state = "Live"
    THEN {[heap |-> [heap EXCEPT ![p].state = "Released", ![p].drops = @ + 1,
                                 ![p].releases = @ + 1],
           abort |-> FALSE]}
    ELSE {[heap |-> [heap EXCEPT ![p].drops = @ + 1, ![p].releases = @ + 1],
           abort |-> FALSE],
          [heap |-> [heap EXCEPT ![p].releases = @ + 1], abort |-> TRUE]}

\* ------------------------------------------------------------ NonNull
\* NonNull::new_unchecked(p): no check.  A null p is undefined behaviour:
\* the build either wraps the null address or stops on a debug assertion.
NonNullNewUnchecked(p) ==
    IF p # Null
    THEN {[addr |-> p, abort |-> FALSE]}
    ELSE {[addr |-> Null, abort |-> FALSE], [addr |-> Null, abort |-> TRUE]}

\* NonNull::as_ptr
NonNullAsPtr(h) == h.addr

\* An address other than a, for the faulty variants below.
OtherAddr(a) == CHOOSE b \in Addrs : b # a

\* ------------------------------------------------------- handle values
\* A handle: the wrapped address, the thread that holds it by value, the
\* threads that hold a & to it, and the address it was made for.
Handle(kind, addr, t, origin) ==
    [kind |-> kind, addr |-> addr, thread |-> t, shared |-> {}, origin |-> origin]

Held == BagToSet(handles)
Room == BagCardinality(handles) < MaxHandles
One(h) == SetToBag({h})

\* Thread t can reach the handle: it holds it or holds a & to it.
Access(t, h) == h.thread = t \/ t \in h.shared

\* Thread t holds the handle by value (or &mut) with no & outstanding.
Owns(t, h) == h.thread = t /\ h.shared = {}

Running == proc = "running"

\* ------------------------------------------------- src/lib.rs: AliasPtr
\* Faulty variant: wraps an address other than the one passed.
AliasPtr_from_raw_wrong(p) == {[addr |-> OtherAddr(p), abort |-> FALSE]}

\* AliasPtr::from_raw(p) == Self(NonNull::new_unchecked(p))
AliasPtr_from_raw(p) == NonNullNewUnchecked(p)

\* From<Box<T>> for AliasPtr<T>: Self::from_raw(Box::into_raw(item))
AliasPtr_from(item) == AliasPtr_from_raw(BoxIntoRaw(item))

\* Faulty variant: a clone that refers to storage of its own, as Box::clone.
AliasPtr_clone_deep(self) == OtherAddr(self.addr)

\* Clone for AliasPtr: Self(self.0), the address and nothing else
AliasPtr_clone(self) == self.addr

\* Faulty variant: the copy does not carry the address over.
AliasPtr_copy_null(self) == Null

\* AliasPtr::copy == self.clone()
AliasPtr_copy(self) == AliasPtr_clone(self)

\* Faulty variant: delete rebuilds the Box and forgets it.
AliasPtr_delete_forget(self) == BoxFromRawDropLeak(NonNullAsPtr(self))

\* AliasPtr::delete: Box::from_raw(self.0.as_ptr()), dropped at once
AliasPtr_delete(self) == BoxFromRawDrop(NonNullAsPtr(self))

\* AliasPtr::as_ptr
AliasPtr_as_ptr(this) == NonNullAsPtr(this)

\* Deref for AliasPtr: &*self.0.as_ptr(), the place the handle refers to
AliasPtr_deref(self) == NonNullAsPtr(self)

\* unsafe impl Send for AliasPtr<T> where T: Send + Sync
AliasPtr_Send(ty) == ty.send /\ ty.sync

\* Faulty variant: the bounds of &T, without T: Send.
AliasPtr_Sync_like_ref(ty) == ty.sync

\* unsafe impl Sync for AliasPtr<T> where T: Send + Sync
AliasPtr_Sync(ty) == ty.send /\ ty.sync

\* ------------------------------------------------- src/box.rs: AliasBox
\* AliasBox::from_raw(p) == Self(NonNull::new_unchecked(p))
AliasBox_from_raw(p) == NonNullNewUnchecked(p)

\* From<Box<T>> for AliasBox<T>: Self::from_raw(Box::into_raw(item))
AliasBox_from(item) == AliasBox_from_raw(BoxIntoRaw(item))

\* Faulty variant: no Drop impl, the target leaks.
AliasBox_drop_nothing(self) == {[heap |-> heap, abort |-> FALSE]}

\* Drop for AliasBox: drop(Box::from_raw(self.0.as_ptr()))
AliasBox_drop(self) == BoxFromRawDrop(NonNullAsPtr(self))

\* Faulty variant: the alias refers to other storage than the box.
AliasBox_alias_other(self) == AliasPtr_from_raw(OtherAddr(self.addr))

\* AliasBox::alias: AliasPtr::from_raw(self.0.as_ptr())
AliasBox_alias(self) == AliasPtr_from_raw(NonNullAsPtr(self))

\* AliasBox::as_ptr
AliasBox_as_ptr(self) == NonNullAsPtr(self)

\* Deref for AliasBox: &*self.0.as_ptr()
AliasBox_deref(self) == NonNullAsPtr(self)

\* Faulty variant: the bounds of Box<T>, without T: Sync.
AliasBox_Send_like_Box(ty) == ty.send

\* unsafe impl Send for AliasBox<T> where T: Send + Sync
AliasBox_Send(ty) == ty.send /\ ty.sync

\* unsafe impl Sync for AliasBox<T> where T: Sync
AliasBox_Sync(ty) == ty.sync

\* --------------------------------------------------- shared by both types
Deref(h) == IF h.kind = "AliasPtr" THEN AliasPtr_deref(h) ELSE AliasBox_deref(h)
AsPtr(h) == IF h.kind = "AliasPtr" THEN AliasPtr_as_ptr(h) ELSE AliasBox_as_ptr(h)
ImplSend(h) == IF h.kind = "AliasPtr" THEN AliasPtr_Send(T) ELSE AliasBox_Send(T)
ImplSync(h) == IF h.kind = "AliasPtr" THEN AliasPtr_Sync(T) ELSE AliasBox_Sync(T)

\* A reference obtained by deref is valid while its target is live.
ValidRef(p) == p # Null /\ heap[p].state = "Live"

\* Cell::get through a reference; through a dangling or null one it is
\* undefined behaviour: any value, or the process dies.
CellGet(p) ==
    IF ValidRef(p)
    THEN {[val |-> heap[p].val, abort |-> FALSE]}
    ELSE {[val |-> v, abort |-> FALSE] : v \in Values} \cup {[val |-> 0, abort |-> TRUE]}

\* Cell::set through a reference; undefined behaviour as for CellGet.
CellSet(p, v) ==
    IF ValidRef(p)
    THEN {[heap |-> [heap EXCEPT ![p].val = v], abort |-> FALSE]}
    ELSE {[heap |-> heap, abort |-> FALSE], [heap |-> heap, abort |-> TRUE]}

\* The raw pointers thread t can hold: null, or as_ptr of a handle it reaches.
RawPointers(t) == {Null} \cup {AsPtr(h) : h \in {g \in Held : Access(t, g)}}

CanRelease(p) == IF p = Null THEN TRUE ELSE heap[p].releases < MaxReleases

Abort(op) ==
    /\ proc' = "aborted"
    /\ lastOp' = op
    /\ UNCHANGED <<T, heap, handles>>

\* A constructor returned the handle h.
Return(op, h) ==
    /\ handles' = handles (+) One(h)
    /\ lastOp' = op
    /\ UNCHANGED <<T, proc>>

\* ------------------------------------------------------------- actions
Start ==
    /\ heap = [a \in Addrs |-> Unallocated]
    /\ handles = EmptyBag
    /\ proc = "running"
    /\ lastOp = NoOp

\* On one thread Send and Sync play no part: T is a sized or an unsized type.
Init == T \in {ty \in Types : ty.send /\ ty.sync} /\ Start

\* On two threads the layout plays no part: T is a sized type that is Send or
\* not, Sync or not.
InitThreads == T \in {ty \in Types : ty.sized} /\ Start

\* AliasPtr::new(x), T: Sized
New(t, x) ==
    /\ Running /\ Room /\ FreshAddrs # {} /\ T.sized
    /\ \E o \in AliasPtr_from(BoxNewAddr) :
        /\ ~o.abort
        /\ heap' = BoxNew(x, "AliasPtr")
        /\ Return([op |-> "new", k |-> "AliasPtr", p |-> BoxNewAddr, v |-> x],
                  Handle("AliasPtr", o.addr, t, BoxNewAddr))

\* AliasPtr::from(Box<T>), T: ?Sized
From(t, x) ==
    /\ Running /\ Room /\ FreshAddrs # {}
    /\ \E o \in AliasPtr_from(BoxNewAddr) :
        /\ ~o.abort
        /\ heap' = BoxNew(x, "AliasPtr")
        /\ Return([op |-> "from", k |-> "AliasPtr", p |-> BoxNewAddr, v |-> x],
                  Handle("AliasPtr", o.addr, t, BoxNewAddr))

\* AliasPtr::from_raw(p)
FromRaw(t, p) ==
    /\ Running /\ Room
    /\ p \in RawPointers(t)
    /\ \E o \in AliasPtr_from_raw(p) :
        LET op == [op |-> "from_raw", k |-> "AliasPtr", p |-> p, v |-> 0] IN
        IF o.abort
        THEN Abort(op)
        ELSE /\ Return(op, Handle("AliasPtr", o.addr, t, p))
             /\ UNCHANGED heap

\* AliasPtr::copy(&self)
Copy(t, h) ==
    /\ Running /\ Room
    /\ h \in Held /\ Access(t, h) /\ h.kind = "AliasPtr"
    /\ Return([op |-> "copy", k |-> "AliasPtr", p |-> AliasPtr_as_ptr(h), v |-> 0],
              Handle("AliasPtr", AliasPtr_copy(h), t, h.origin))
    /\ UNCHANGED heap

\* AliasPtr::clone(&self)
Clone(t, h) ==
    /\ Running /\ Room
    /\ h \in Held /\ Access(t, h) /\ h.kind = "AliasPtr"
    /\ Return([op |-> "clone", k |-> "AliasPtr", p |-> AliasPtr_as_ptr(h), v |-> 0],
              Handle("AliasPtr", AliasPtr_clone(h), t, h.origin))
    /\ UNCHANGED heap

\* AliasPtr::delete(&mut self); the handle stays in scope afterwards
Delete(t, h) ==
    /\ Running
    /\ h \in Held /\ Owns(t, h) /\ h.kind = "AliasPtr"
    /\ CanRelease(h.addr)
    /\ \E o \in AliasPtr_delete(h) :
        LET op == [op |-> "delete", k |-> "AliasPtr", p |-> h.addr, v |-> 0] IN
        IF o.abort
        THEN Abort(op)
        ELSE /\ heap' = o.heap
             /\ lastOp' = op
             /\ UNCHANGED <<T, handles, proc>>

\* An AliasPtr goes out of scope: the type has no Drop impl.
DropPtr(t, h) ==
    /\ Running
    /\ h \in Held /\ Owns(t, h) /\ h.kind = "AliasPtr"
    /\ handles' = handles (-) One(h)
    /\ lastOp' = [op |-> "drop_ptr", k |-> "AliasPtr", p |-> h.addr, v |-> 0]
    /\ UNCHANGED <<T, heap, proc>>

\* AliasBox::new(x), T: Sized
BoxedNew(t, x) ==
    /\ Running /\ Room /\ FreshAddrs # {} /\ T.sized
    /\ \E o \in AliasBox_from(BoxNewAddr) :
        /\ ~o.abort
        /\ heap' = BoxNew(x, "AliasBox")
        /\ Return([op |-> "box_new", k |-> "AliasBox", p |-> BoxNewAddr, v |-> x],
                  Handle("AliasBox", o.addr, t, BoxNewAddr))

\* AliasBox::from(Box<T>), T: ?Sized
BoxedFrom(t, x) ==
    /\ Running /\ Room /\ FreshAddrs # {}
    /\ \E o \in AliasBox_from(BoxNewAddr) :
        /\ ~o.abort
        /\ heap' = BoxNew(x, "AliasBox")
        /\ Return([op |-> "box_from", k |-> "AliasBox", p |-> BoxNewAddr, v |-> x],
                  Handle("AliasBox", o.addr, t, BoxNewAddr))

\* AliasBox::from_raw(p)
BoxedFromRaw(t, p) ==
    /\ Running /\ Room
    /\ p \in RawPointers(t)
    /\ \E o \in AliasBox_from_raw(p) :
        LET op == [op |-> "box_from_raw", k |-> "AliasBox", p |-> p, v |-> 0] IN
        IF o.abort
        THEN Abort(op)
        ELSE /\ Return(op, Handle("AliasBox", o.addr, t, p))
             /\ UNCHANGED heap

\* AliasBox::alias(&self)
Alias(t, h) ==
    /\ Running /\ Room
    /\ h \in Held /\ Access(t, h) /\ h.kind = "AliasBox"
    /\ \E o \in AliasBox_alias(h) :
        LET op == [op |-> "alias", k |-> "AliasBox", p |-> AliasBox_as_ptr(h), v |-> 0] IN
        IF o.abort
        THEN Abort(op)
        ELSE /\ Return(op, Handle("AliasPtr", o.addr, t, h.origin))
             /\ UNCHANGED heap

\* An AliasBox goes out of scope: Drop for AliasBox runs.
DropBox(t, h) ==
    /\ Running
    /\ h \in Held /\ Owns(t, h) /\ h.kind = "AliasBox"
    /\ CanRelease(h.addr)
    /\ \E o \in AliasBox_drop(h) :
        LET op == [op |-> "drop_box", k |-> "AliasBox", p |-> h.addr, v |-> 0] IN
        IF o.abort
        THEN Abort(op)
        ELSE /\ heap' = o.heap
             /\ handles' = handles (-) One(h)
             /\ lastOp' = op
             /\ UNCHANGED <<T, proc>>

\* AliasPtr::as_ptr(&h) / AliasBox::as_ptr(&self)
GetPtr(t, h) ==
    /\ Running
    /\ h \in Held /\ Access(t, h)
    /\ lastOp' = [op |-> "as_ptr", k |-> h.kind, p |-> h.addr, v |-> AsPtr(h)]
    /\ UNCHANGED <<T, heap, handles, proc>>

\* h.get(): deref, then Cell::get
Get(t, h) ==
    /\ Running
    /\ h \in Held /\ Access(t, h)
    /\ \E o \in CellGet(Deref(h)) :
        LET op == [op |-> "get", k |-> h.kind, p |-> h.origin, v |-> o.val] IN
        IF o.abort
        THEN Abort(op)
        ELSE /\ lastOp' = op
             /\ UNCHANGED <<T, heap, handles, proc>>

\* h.set(v): deref, then Cell::set
Set(t, h, v) ==
    /\ Running
    /\ h \in Held /\ Access(t, h)
    /\ \E o \in CellSet(Deref(h), v) :
        LET op == [op |-> "set", k |-> h.kind, p |-> h.origin, v |-> v] IN
        IF o.abort
        THEN Abort(op)
        ELSE /\ heap' = o.heap
             /\ lastOp' = op
             /\ UNCHANGED <<T, handles, proc>>

\* The handle is moved to thread t2: compiles only when its type is Send.
SendTo(h, t2) ==
    /\ Running
    /\ h \in Held /\ Owns(h.thread, h)
    /\ t2 # h.thread
    /\ ImplSend(h)
    /\ handles' = (handles (-) One(h)) (+) One([h EXCEPT !.thread = t2])
    /\ lastOp' = [op |-> "send", k |-> h.kind, p |-> h.addr, v |-> 0]
    /\ UNCHANGED <<T, heap, proc>>

\* A & to the handle is given to thread t2: compiles only when its type is Sync.
Share(h, t2) ==
    /\ Running
    /\ h \in Held
    /\ t2 # h.thread /\ t2 \notin h.shared
    /\ ImplSync(h)
    /\ handles' = (handles (-) One(h)) (+) One([h EXCEPT !.shared = @ \cup {t2}])
    /\ lastOp' = [op |-> "share", k |-> h.kind, p |-> h.addr, v |-> 0]
    /\ UNCHANGED <<T, heap, proc>>

\* Thread t2's & to the handle ends.
Unshare(h, t2) ==
    /\ Running
    /\ h \in Held
    /\ t2 \in h.shared
    /\ handles' = (handles (-) One(h)) (+) One([h EXCEPT !.shared = @ \ {t2}])
    /\ lastOp' = [op |-> "unshare", k |-> h.kind, p |-> h.addr, v |-> 0]
    /\ UNCHANGED <<T, heap, proc>>

\* The program on one thread: every operation of both types.
Next ==
    \/ \E x \in Values : New(Main, x)
    \/ \E x \in Values : From(Main, x)
    \/ \E p \in RawPointers(Main) : FromRaw(Main, p)
    \/ \E h \in Held : Copy(Main, h)
    \/ \E h \in Held : Clone(Main, h)
    \/ \E h \in Held : Delete(Main, h)
    \/ \E h \in Held : DropPtr(Main, h)
    \/ \E x \in Values : BoxedNew(Main, x)
    \/ \E x \in Values : BoxedFrom(Main, x)
    \/ \E p \in RawPointers(Main) : BoxedFromRaw(Main, p)
    \/ \E h \in Held : Alias(Main, h)
    \/ \E h \in Held : DropBox(Main, h)
    \/ \E h \in Held : GetPtr(Main, h)
    \/ \E h \in Held : Get(Main, h)
    \/ \E v \in Values : \E h \in Held : Set(Main, h, v)

Spec == Init /\ [][Next]_vars

\* The program on two threads: handles are made, duplicated, read and dropped
\* on either thread, and cross threads as far as Send and Sync allow.
NextThreads ==
    \/ \E t \in Threads : New(t, InitialValue)
    \/ \E t \in Threads : From(t, InitialValue)
    \/ \E t \in Threads : \E h \in Held : Copy(t, h)
    \/ \E t \in Threads : \E h \in Held : Delete(t, h)
    \/ \E t \in Threads : \E h \in Held : DropPtr(t, h)
    \/ \E t \in Threads : BoxedNew(t, InitialValue)
    \/ \E t \in Threads : BoxedFrom(t, InitialValue)
    \/ \E t \in Threads : \E h \in Held : Alias(t, h)
    \/ \E t \in Threads : \E h \in Held : DropBox(t, h)
    \/ \E t \in Threads : \E h \in Held : Get(t, h)
    \/ \E t2 \in Threads : \E h \in Held : SendTo(h, t2)
    \/ \E t2 \in Threads : \E h \in Held : Share(h, t2)
    \/ \E t2 \in Threads : \E h \in Held : Unshare(h, t2)

SpecThreads == InitThreads /\ [][NextThreads]_vars

\* ----------------------------------------------------------- layout
\* The words a value occupies.  NonNull<T> is one address for a sized T and
\* an address with its metadata (a length, a vtable) for an unsized T, as
\* the structs are declared over T: ?Sized.
Meta == "meta"
NonNullRepr(addr) == IF T.sized THEN <<addr>> ELSE <<addr, Meta>>

\* Faulty variant: the handle carries a count next to the address.
HandleRepr_counted(h) == NonNullRepr(h.addr) \o <<"count">>

\* #[repr(transparent)] struct AliasPtr<T: ?Sized>(NonNull<T>), and the same
\* for AliasBox: the handle is laid out as its only field.
HandleRepr(h) == NonNullRepr(h.addr)

\* usize: one word
UsizeRepr(n) == <<n>>

\* Option<handle>: None takes the null address, which NonNull leaves free.
OptionNone == NonNullRepr(Null)
OptionSome(h) == HandleRepr(h)

SizeOf(repr) == Len(repr)

\* ============================================================ properties
\* The handles made for allocation a, and those among them of one kind.
Family(a) == {h \in Held : h.origin = a}
Kind(k, a) == {h \in Family(a) : h.kind = k}
Handles(a) == BagCardinality([h \in Family(a) |-> CopiesIn(h, handles)])

\* C1: for an allocation made by AliasPtr::new / AliasPtr::from, with any
\* duplicates: as long as no release has been called on it, whatever handles
\* were dropped, T's destructor has not run and the storage is live; after
\* the single release call the destructor has run exactly once and the
\* storage is freed.
C1_DeleteRunsDestructorOnce ==
    \A a \in Addrs :
        heap[a].owner = "AliasPtr" =>
            /\ heap[a].releases = 0 => heap[a].drops = 0 /\ heap[a].state = "Live"
            /\ heap[a].releases = 1 => heap[a].drops = 1 /\ heap[a].state = "Released"

\* delete() was just called, once, on one of several duplicates.
C1_Witness ==
    /\ lastOp.op = "delete"
    /\ lastOp.p \in Addrs
    /\ heap[lastOp.p].owner = "AliasPtr"
    /\ heap[lastOp.p].releases = 1
    /\ heap[lastOp.p].drops = 1
    /\ Handles(lastOp.p) >= 2

\* C2: for an allocation made by AliasBox::new / AliasBox::from: while no
\* release has happened the AliasBox is still held, the destructor count is
\* 0 and the storage is live, however many aliases were made and dropped;
\* the AliasBox cannot go away without releasing; and after that one release
\* the destructor count is exactly 1.
C2_BoxDropIsTheRelease ==
    \A a \in Addrs :
        heap[a].owner = "AliasBox" =>
            /\ heap[a].releases = 0 =>
                  heap[a].drops = 0 /\ heap[a].state = "Live" /\ Kind("AliasBox", a) # {}
            /\ Kind("AliasBox", a) = {} => heap[a].releases >= 1
            /\ heap[a].releases = 1 => heap[a].drops = 1 /\ heap[a].state = "Released"

\* The AliasBox was just dropped while an alias of it is still held.
C2_Witness ==
    /\ lastOp.op = "drop_box"
    /\ lastOp.p \in Addrs
    /\ heap[lastOp.p].owner = "AliasBox"
    /\ heap[lastOp.p].releases = 1
    /\ heap[lastOp.p].drops = 1
    /\ Kind("AliasBox", lastOp.p) = {}
    /\ Kind("AliasPtr", lastOp.p) # {}

\* C3: per allocation: storage starts Live; Released is terminal, whatever
\* operation of either type runs next; Live becomes Released only by delete()
\* or by the drop of an AliasBox on that address, and each of those, applied
\* to a Live allocation, does release it.
C3_Step ==
    \A a \in Addrs :
        /\ heap[a].state = "Unallocated" => heap'[a].state \in {"Unallocated", "Live"}
        /\ heap[a].state = "Live" => heap'[a].state \in {"Live", "Released"}
        /\ heap[a].state = "Released" => heap'[a].state = "Released"
        /\ heap[a].state = "Live" /\ heap'[a].state = "Released" =>
              lastOp'.op \in {"delete", "drop_box"} /\ lastOp'.p = a
        /\ heap[a].state = "Live" /\ lastOp'.op \in {"delete", "drop_box"} /\ lastOp'.p = a =>
              heap'[a].state = "Released"

C3_LiveToReleasedOnce == [][C3_Step]_vars

\* A second release was called on a Released allocation, and it stayed so.
C3_Witness ==
    /\ lastOp.op \in {"delete", "drop_box"}
    /\ lastOp.p \in Addrs
    /\ heap[lastOp.p].releases = 2
    /\ heap[lastOp.p].state = "Released"

\* What a read through handle h returns.
Reads(h) == CellGet(Deref(h))
ReadsOnly(h, v) == Reads(h) = {[val |-> v, abort |-> FALSE]}

\* C4: for a live allocation made by AliasPtr::new / AliasPtr::from, every
\* AliasPtr of its family (the original, its copies and clones) refers to the
\* same storage: all read the same value, a value just written through any of
\* them is what each of them reads, and a read just made through one of them
\* returned the value the others read.
C4_SharedAddressAliasing ==
    \A a \in Addrs :
        heap[a].owner = "AliasPtr" /\ heap[a].state = "Live" =>
            /\ \A h \in Kind("AliasPtr", a) : ReadsOnly(h, heap[a].val)
            /\ lastOp.op = "set" /\ lastOp.p = a =>
                  \A h \in Kind("AliasPtr", a) : ReadsOnly(h, lastOp.v)
            /\ lastOp.op = "get" /\ lastOp.p = a =>
                  \A h \in Kind("AliasPtr", a) : ReadsOnly(h, lastOp.v)

\* 42 was just written through one of two duplicates of a live AliasPtr that
\* was made holding 1.
C4_Witness ==
    /\ lastOp.op = "set" /\ lastOp.k = "AliasPtr" /\ lastOp.v = 42
    /\ lastOp.p \in Addrs
    /\ heap[lastOp.p].owner = "AliasPtr"
    /\ heap[lastOp.p].state = "Live"
    /\ \E h \in Kind("AliasPtr", lastOp.p) : CopiesIn(h, handles) >= 2

\* C5: for a live allocation made by AliasBox::new / AliasBox::from, while
\* the AliasBox is held: the AliasBox and every AliasPtr derived from it read
\* the same value, and a value just written through either kind of handle is
\* what the handles of the other kind (and of the same kind) read.
C5_BoxAliasPairLaw ==
    \A a \in Addrs :
        heap[a].owner = "AliasBox" /\ heap[a].state = "Live" /\ Kind("AliasBox", a) # {} =>
            /\ \A h \in Family(a) : ReadsOnly(h, heap[a].val)
            /\ lastOp.op = "set" /\ lastOp.p = a =>
                  \A h \in Family(a) : ReadsOnly(h, lastOp.v)
            /\ lastOp.op = "get" /\ lastOp.p = a =>
                  \A h \in Family(a) : ReadsOnly(h, lastOp.v)

\* 42 was just written through an alias of a held AliasBox made holding 1.
C5_Witness ==
    /\ lastOp.op = "set" /\ lastOp.k = "AliasPtr" /\ lastOp.v = 42
    /\ lastOp.p \in Addrs
    /\ heap[lastOp.p].owner = "AliasBox"
    /\ heap[lastOp.p].state = "Live"
    /\ Kind("AliasBox", lastOp.p) # {}
    /\ Kind("AliasPtr", lastOp.p) # {}

\* C6 as claimed: the address-wrapping constructor of AliasPtr, passed the
\* null address, terminates the process, and no AliasPtr holds the null
\* address.
C6_NullIsRejected ==
    /\ lastOp.op = "from_raw" /\ lastOp.p = Null => proc = "aborted"
    /\ \A h \in Held : h.kind = "AliasPtr" => h.addr # Null

\* C6 amended: from_raw (of either type) trusts its argument.  Passed a
\* non-null address it returns, without terminating the process, a handle
\* holding exactly that address; a handle holds the null address only when
\* null was passed to from_raw, which nothing checks.
C6_FromRawTrustsItsArgument ==
    /\ lastOp.op \in {"from_raw", "box_from_raw"} /\ lastOp.p # Null =>
          /\ proc = "running"
          /\ \E h \in Held : h.kind = lastOp.k /\ h.addr = lastOp.p
    /\ \A h \in Held : h.origin # Null => h.addr = h.origin
    /\ \A h \in Held : h.origin = Null => h.addr = Null

\* AliasPtr::from_raw was just passed a non-null address and returned.
C6_Witness ==
    /\ lastOp.op = "from_raw" /\ lastOp.p # Null
    /\ proc = "running"
    /\ \E h \in Held : h.kind = "AliasPtr" /\ h.addr = lastOp.p /\ CopiesIn(h, handles) >= 2

\* C7 as claimed: a handle of either type is shared with another thread only
\* if T is Sync and T is Send.
C7_SyncNeedsSendAndSync ==
    \A h \in Held : h.shared # {} => T.sync /\ T.send

\* C7 amended: a handle is shared with another thread only if T is Sync and,
\* for an AliasPtr, T is also Send; an AliasBox needs no T: Send for that.
C7_SyncBounds ==
    \A h \in Held : h.shared # {} => T.sync /\ (h.kind = "AliasPtr" => T.send)

\* An AliasBox over a T that is Sync but not Send is shared with a thread.
C7_Witness ==
    /\ ~T.send
    /\ lastOp.op = "share" /\ lastOp.k = "AliasBox"
    /\ \E h \in Held : h.kind = "AliasBox" /\ h.shared # {}

\* The threads that can dereference a handle to address a.
Reach(a) == {t \in Threads : \E h \in Held : h.addr = a /\ Access(t, h)}

\* C8: a handle was moved to another thread only if T is Send and, for an
\* AliasBox, also Sync; and two threads can dereference the same allocation
\* only when T is Sync.
C8_SendBounds ==
    /\ lastOp.op = "send" => T.send /\ (lastOp.k = "AliasBox" => T.sync)
    /\ \A a \in Addrs : Cardinality(Reach(a)) >= 2 => T.sync

\* An AliasBox was just moved to the other thread while an alias derived
\* from it stays behind: both threads reach the allocation.
C8_Witness ==
    /\ lastOp.op = "send" /\ lastOp.k = "AliasBox"
    /\ \E b \in Held, g \in Held :
        /\ b.kind = "AliasBox" /\ g.kind = "AliasPtr"
        /\ b.addr = g.addr /\ b.origin = g.origin
        /\ b.thread # g.thread
        /\ heap[b.addr].state = "Live"

\* C9: a copy() or clone() returns; it adds one AliasPtr holding the address
\* of its source, and leaves every other handle, the heap (each allocation's
\* state, value and destructor count, and the set of allocations) and the
\* process as they were.
C9_Step ==
    lastOp'.op \in {"copy", "clone"} =>
        /\ heap' = heap
        /\ proc' = "running"
        /\ handles \sqsubseteq handles'
        /\ BagCardinality(handles') = BagCardinality(handles) + 1
        /\ \A h \in BagToSet(handles') :
              CopiesIn(h, handles') > CopiesIn(h, handles) =>
                  /\ h.kind = "AliasPtr"
                  /\ h.addr = lastOp'.p
                  /\ \E src \in Held : src.kind = "AliasPtr" /\ AliasPtr_as_ptr(src) = h.addr

C9_CopyFrame == [][C9_Step]_vars

\* copy() just returned a second handle to a live allocation.
C9_Witness ==
    /\ lastOp.op = "copy"
    /\ lastOp.p \in Addrs
    /\ heap[lastOp.p].state = "Live"
    /\ \E h \in Held : h.kind = "AliasPtr" /\ h.addr = lastOp.p /\ CopiesIn(h, handles) >= 2

====
